---- MODULE Spec2Model ----
(***************************************************************************)
(* Records store: HTTP handlers (api/routes.py), the Celery worker         *)
(* (api/worker.py), the telemetry bootstrap (api/telemetry.py), the        *)
(* Order/Product tables (api/models.py) and the route label of the         *)
(* metrics (api/metrics.py).                                               *)
(*                                                                         *)
(* Spec              the handlers and the worker, storage and broker       *)
(*                   calls succeeding                                      *)
(* FaultSpec         the worker with storage calls and metrics pushes      *)
(*                   that may raise                                        *)
(* ConfirmationSpec  checkout with a confirmation job that may fail        *)
(* CheckoutFaultSpec checkout with storage and broker calls that may       *)
(*                   raise                                                 *)
(* RedeliverySpec    the worker under a broker that delivers a message     *)
(*                   more than once                                        *)
(* TelemetrySpec     callers of setup_telemetry, step by step              *)
(* RouteSpec         normalize_route on paths of a few segments            *)
(***************************************************************************)
EXTENDS Integers, Sequences, FiniteSets, TLC

VARIABLES
    products,               \* products table: row i has id i
    orders,                 \* orders table: sequence of rows, in commit order
    order_id_seq,           \* the orders.id sequence: last value handed out
    tasks,                  \* every task ever submitted, tasks[i] has id i
    queue,                  \* ids of the task messages waiting in the broker
    reqs,                   \* HTTP requests, in order of arrival
    logs,                   \* logs[r]: the records request r wrote with routes.logger, in order
                            \* (the "processing_delay" record of the latency hook left out)
    spans,                  \* spans[r]: status of the root span and of the verify span of request r
    conns,                  \* storage connections opened by the worker and never closed
    TASK_COUNT,             \* celery_tasks_total, by <<task_name, status>>
    TASK_FAILURE,           \* celery_task_failures_total, task_name = process_order
    pushed,                 \* push_to_gateway calls of the worker that reached the gateway
    telemetry_initialized,  \* telemetry._telemetry_initialized
    providers,              \* callers whose TracerProvider (+ exporter) was built
    tracer_provider,        \* the global tracer provider: the caller who set it, 0 = unset
    textmap,                \* the global propagator: the caller who set it last, 0 = unset
    calls,                  \* calls of setup_telemetry
    path,                   \* the argument of a normalize_route call, a sequence of characters
    route                   \* what the call returned, <<>> before it has

appvars == <<products, orders, order_id_seq, tasks, queue, reqs, logs, spans, conns,
             TASK_COUNT, TASK_FAILURE, pushed>>
obsvars == <<logs, spans>>
telvars == <<telemetry_initialized, providers, tracer_provider, textmap, calls>>
metvars == <<path, route>>
vars == <<products, orders, order_id_seq, tasks, queue, reqs, logs, spans, conns,
          TASK_COUNT, TASK_FAILURE, pushed,
          telemetry_initialized, providers, tracer_provider, textmap, calls,
          path, route>>

----------------------------------------------------------------------------
(* Bounds of the model *)

MaxRequests == 2        \* requests (HTTP, or a task sent by another producer) in one behaviour
MaxFaults == 4          \* worker attempts in which a storage call raises, in one behaviour
MaxCallers == 3         \* calls of setup_telemetry in one process
MaxDeliveries == 3      \* deliveries of one task message by the broker
MaxSegments == 2        \* segments of a path handed to normalize_route

(* Inputs *)
ProductIds == {1, 2}    \* 1 is in the store from the start, 2 only once it is created
Quantities == {3}
Names == {"lp"}
Prices == {10}

(* Program constants *)
max_retries == 3        \* @celery_app.task(..., max_retries=3)
retry_countdown == 5    \* self.retry(exc=e, countdown=5)

Order_status_default == "pending"       \* Column(String, default="pending")

----------------------------------------------------------------------------
(* Rows, requests and tasks *)

NoProduct == [name |-> "", price |-> 0]

NoResult == [status |-> "", reason |-> "", order_id |-> 0]

\* Order(product_id=..., quantity=...) / INSERT INTO orders (product_id, quantity, status);
\* by is a ghost tag naming what inserted the row
OrderRow(id, product_id, quantity, status, by) ==
    [id |-> id, product_id |-> product_id, quantity |-> quantity,
     status |-> status, by |-> by]

\* db.query(Product).filter(Product.id == product_id).first() is not None
product_exists(product_id) == product_id \in 1..Len(products)

\* the rows db.query(Order).filter(Order.id == order_id) selects
order_rows(order_id) == {i \in 1..Len(orders) : orders[i].id = order_id}

nextval_not_advanced == IF order_id_seq = 0 THEN 1 ELSE order_id_seq

\* nextval of the orders.id sequence
nextval == order_id_seq + 1

\* celery's uuid() for a submitted task
uuid == Len(tasks) + 1

\* task.delay(args): the message handed to the broker; by is a ghost tag
Task(name, args, by) ==
    [name |-> name, args |-> args, by |-> by, retries |-> 0, countdown |-> 0,
     attempts |-> 0, state |-> "PENDING", result |-> NoResult]

NoArgs == [product_id |-> 0, quantity |-> 0, order_id |-> 0]

order_data(product_id, quantity) ==
    [product_id |-> product_id, quantity |-> quantity, order_id |-> 0]

\* a request while its handler runs: the handler's position and local variables
Request(op, pc, product_id, quantity) ==
    [op |-> op, pc |-> pc, product_id |-> product_id, quantity |-> quantity,
     product |-> NoProduct, delayed |-> FALSE,
     order_id |-> 0, task_id |-> 0, status_code |-> 0]

\* a request once its handler is over: what the client got
\* (404: detail names the id asked for; 200: order_id and task_id of the body)
Response(op, status_code, product_id, order_id, task_id) ==
    [Request(op, "done", product_id, 0) EXCEPT
        !.order_id = order_id, !.task_id = task_id, !.status_code = status_code]

\* StructuredLogger.info(msg, ...) / StructuredLogger.error(msg, ...): the record
\* handed to the logging module
logger_info(msg) == [message |-> msg, level |-> "INFO"]
logger_error(msg) == [message |-> msg, level |-> "ERROR"]

\* span statuses of a request: nothing set
NoSpans == [root |-> "UNSET", verify |-> "UNSET"]

\* ghost tags: <<"http", request>> or <<"task", id>>
ByRequest(r) == <<"http", r>>
ByTask(id) == <<"task", id>>

----------------------------------------------------------------------------
InitStore ==
    /\ products = <<[name |-> "lp", price |-> 10]>>
    /\ orders = <<>>
    /\ order_id_seq = 0
    /\ tasks = <<>>
    /\ queue = {}
    /\ reqs = <<>>
    /\ logs = <<>>
    /\ spans = <<>>
    /\ conns = 0
    /\ TASK_COUNT = [k \in {"process_order", "send_order_confirmation"}
                           \X {"success", "failed"} |-> 0]
    /\ TASK_FAILURE = 0
    /\ pushed = 0
    /\ telemetry_initialized = FALSE
    /\ providers = {}
    /\ tracer_provider = 0
    /\ textmap = 0
    /\ calls = <<>>

\* no normalize_route call under way
Init ==
    /\ InitStore
    /\ path = <<>>
    /\ route = <<>>

----------------------------------------------------------------------------
(* api/routes.py *)

verify_product_skipped(product_id) == TRUE

\* the verify_product span: product is not None
verify_product(product_id) == product_exists(product_id)

\* the verify_order span: order is not None
verify_order(order_id) == order_rows(order_id) # {}

checkout_order_status_processed == "processed"

\* the status of the row checkout adds: Order(product_id, quantity), column default
checkout_order_status == Order_status_default

create_order_status_processed == "processed"

\* the status of the row create_order adds: Order(..., status="pending")
create_order_status == "pending"

\* the message each handler logs when its verification step finds nothing
not_found_message(op) ==
    CASE op = "checkout" -> "product_not_found"
      [] op = "create_order" -> "product_not_found_order"
      [] op = "process_specific_order" -> "order_not_found"

\* the message each handler's "except Exception" clause logs
error_message(op) ==
    CASE op = "checkout" -> "checkout_error"
      [] op = "create_order" -> "order_creation_error"
      [] op = "process_specific_order" -> "order_processing_error"

\* the verification span when the entity is missing: span.set_status(ERROR),
\* logger.error(...), raise HTTPException(status_code=404)
verify_not_found(op) == <<logger_error(not_found_message(op))>>

\* except Exception as e: span.set_status(ERROR); logger.error(...); raise
except_Exception(op) == <<logger_error(error_message(op))>>

except_HTTPException_logged(op) == <<logger_error(error_message(op))>>

\* except HTTPException as he: span.set_status(ERROR); raise -- logs nothing
except_HTTPException(op) == <<>>

\* the spans of a request rejected by its verification step: the child span is
\* set to ERROR where the 404 is raised, the root span by "except HTTPException"
spans_not_found == [root |-> "ERROR", verify |-> "ERROR"]

\* POST /products
create_product(name, price) ==
    /\ Len(reqs) < MaxRequests
    /\ products' = Append(products, [name |-> name, price |-> price])
    /\ reqs' = Append(reqs, Response("create_product", 200, Len(products) + 1, 0, 0))
    /\ logs' = Append(logs, <<logger_info("product_created")>>)
    /\ spans' = Append(spans, NoSpans)
    /\ UNCHANGED <<orders, order_id_seq, tasks, queue, conns, TASK_COUNT, TASK_FAILURE, pushed>>
    /\ UNCHANGED <<telvars, metvars>>

\* POST /checkout, up to the end of the verify_product span and the
\* "processing_delay" draw: raises 404 when the product is missing
checkout_verify_product(product_id, quantity, delayed) ==
    /\ Len(reqs) < MaxRequests
    /\ IF verify_product(product_id)
       THEN /\ reqs' = Append(reqs,
                [Request("checkout", "create_order_record", product_id, quantity) EXCEPT
                    !.product = IF product_exists(product_id)
                                THEN products[product_id] ELSE NoProduct,
                    !.delayed = delayed])
            /\ logs' = Append(logs, <<>>)
            /\ spans' = Append(spans, NoSpans)
       ELSE /\ ~delayed
            /\ reqs' = Append(reqs, Response("checkout", 404, product_id, 0, 0))
            /\ logs' = Append(logs, verify_not_found("checkout")
                                        \o except_HTTPException("checkout"))
            /\ spans' = Append(spans, spans_not_found)
    /\ UNCHANGED <<products, orders, order_id_seq, tasks, queue, conns,
                   TASK_COUNT, TASK_FAILURE, pushed>>
    /\ UNCHANGED <<telvars, metvars>>

\* checkout: the create_order_record span (db.add, db.commit, db.refresh)
checkout_create_order_record(r) ==
    /\ reqs[r].op = "checkout"
    /\ reqs[r].pc = "create_order_record"
    /\ orders' = Append(orders, OrderRow(nextval, reqs[r].product_id, reqs[r].quantity,
                                         checkout_order_status, ByRequest(r)))
    /\ order_id_seq' = nextval
    /\ reqs' = [reqs EXCEPT ![r].order_id = nextval,
                            ![r].pc = "queue_background_processing"]
    /\ UNCHANGED obsvars
    /\ UNCHANGED <<products, tasks, queue, conns, TASK_COUNT, TASK_FAILURE, pushed>>
    /\ UNCHANGED <<telvars, metvars>>

\* the spans of a request whose handler ended in "except Exception"
spans_error == [root |-> "ERROR", verify |-> "UNSET"]

\* checkout: db.commit() raises in the create_order_record span (storage
\* fault): no row; except Exception logs and re-raises, the client gets a 500
checkout_create_order_record_raises(r) ==
    /\ reqs[r].op = "checkout"
    /\ reqs[r].pc = "create_order_record"
    /\ reqs' = [reqs EXCEPT ![r] = Response("checkout", 500, 0, 0, 0)]
    /\ logs' = [logs EXCEPT ![r] = @ \o except_Exception("checkout")]
    /\ spans' = [spans EXCEPT ![r] = spans_error]
    /\ UNCHANGED <<products, orders, order_id_seq, tasks, queue, conns,
                   TASK_COUNT, TASK_FAILURE, pushed>>
    /\ UNCHANGED <<telvars, metvars>>

\* the job checkout builds from the request
checkout_order_data(req) == order_data(req.product_id, req.quantity)

\* checkout: the queue_background_processing span (process_order.delay), then
\* background_tasks.add_task and the response
checkout_queue_background_processing(r) ==
    /\ reqs[r].op = "checkout"
    /\ reqs[r].pc = "queue_background_processing"
    /\ tasks' = Append(tasks, Task("process_order", checkout_order_data(reqs[r]),
                                   ByRequest(r)))
    /\ queue' = queue \cup {uuid}
    /\ reqs' = [reqs EXCEPT ![r].task_id = uuid,
                            ![r].status_code = 200,
                            ![r].pc = "background_tasks"]
    /\ logs' = [logs EXCEPT ![r] = Append(@, logger_info("order_placed"))]
    /\ UNCHANGED spans
    /\ UNCHANGED <<products, orders, order_id_seq, conns, TASK_COUNT, TASK_FAILURE, pushed>>
    /\ UNCHANGED <<telvars, metvars>>

\* checkout: process_order.delay raises in the queue_background_processing
\* span (broker refusing the message), after the row was committed: no job, no
\* background task; except Exception logs and re-raises, the client gets a 500
checkout_queue_background_processing_raises(r) ==
    /\ reqs[r].op = "checkout"
    /\ reqs[r].pc = "queue_background_processing"
    /\ reqs' = [reqs EXCEPT ![r] = Response("checkout", 500, 0, 0, 0)]
    /\ logs' = [logs EXCEPT ![r] = @ \o except_Exception("checkout")]
    /\ spans' = [spans EXCEPT ![r] = spans_error]
    /\ UNCHANGED <<products, orders, order_id_seq, tasks, queue, conns,
                   TASK_COUNT, TASK_FAILURE, pushed>>
    /\ UNCHANGED <<telvars, metvars>>

checkout_response_replaced(req) == Response("checkout", 500, 0, 0, 0)

\* the response of a checkout whose background task runs: the body returned at
\* the end of the handler, sent before starlette runs the background tasks
checkout_response(req) ==
    Response("checkout", req.status_code, 0, req.order_id, req.task_id)

\* checkout: after the response, the background task runs
\* send_order_confirmation.delay(db_order.id)
checkout_background_tasks(r) ==
    /\ reqs[r].op = "checkout"
    /\ reqs[r].pc = "background_tasks"
    /\ tasks' = Append(tasks, Task("send_order_confirmation",
                                   [NoArgs EXCEPT !.order_id = reqs[r].order_id],
                                   ByRequest(r)))
    /\ queue' = queue \cup {uuid}
    /\ reqs' = [reqs EXCEPT ![r] = checkout_response(reqs[r])]
    /\ UNCHANGED obsvars
    /\ UNCHANGED <<products, orders, order_id_seq, conns, TASK_COUNT, TASK_FAILURE, pushed>>
    /\ UNCHANGED <<telvars, metvars>>

\* checkout: after the response, send_order_confirmation.delay raises in the
\* background task (broker refusing the message): no message is submitted
checkout_background_tasks_raises(r) ==
    /\ reqs[r].op = "checkout"
    /\ reqs[r].pc = "background_tasks"
    /\ reqs' = [reqs EXCEPT ![r] = checkout_response(reqs[r])]
    /\ UNCHANGED obsvars
    /\ UNCHANGED <<products, orders, order_id_seq, tasks, queue, conns,
                   TASK_COUNT, TASK_FAILURE, pushed>>
    /\ UNCHANGED <<telvars, metvars>>

\* POST /orders
create_order(product_id, quantity) ==
    /\ Len(reqs) < MaxRequests
    /\ IF verify_product(product_id)
       THEN /\ orders' = Append(orders, OrderRow(nextval, product_id, quantity,
                                        create_order_status, ByRequest(Len(reqs) + 1)))
            /\ order_id_seq' = nextval
            /\ reqs' = Append(reqs, Response("create_order", 200, 0, nextval, 0))
            /\ logs' = Append(logs, <<logger_info("order_created")>>)
            /\ spans' = Append(spans, NoSpans)
       ELSE /\ reqs' = Append(reqs, Response("create_order", 404, product_id, 0, 0))
            /\ logs' = Append(logs, verify_not_found("create_order")
                                        \o except_HTTPException("create_order"))
            /\ spans' = Append(spans, spans_not_found)
            /\ UNCHANGED <<orders, order_id_seq>>
    /\ UNCHANGED <<products, tasks, queue, conns, TASK_COUNT, TASK_FAILURE, pushed>>
    /\ UNCHANGED <<telvars, metvars>>

process_specific_order_data_swapped(order) == order_data(order.quantity, order.product_id)

\* the job process_specific_order builds from the stored row
process_specific_order_data(order) == order_data(order.product_id, order.quantity)

\* .first() of the rows with that id
first_order(order_id) ==
    orders[CHOOSE i \in order_rows(order_id) : \A j \in order_rows(order_id) : i <= j]

\* POST /orders/{order_id}/process
process_specific_order(order_id) ==
    /\ Len(reqs) < MaxRequests
    /\ IF verify_order(order_id)
       THEN /\ tasks' = Append(tasks, Task("process_order",
                                   process_specific_order_data(first_order(order_id)),
                                   ByRequest(Len(reqs) + 1)))
            /\ queue' = queue \cup {uuid}
            /\ reqs' = Append(reqs, Response("process_specific_order", 200, 0,
                                             order_id, uuid))
            /\ logs' = Append(logs, <<logger_info("manual_processing_triggered")>>)
            /\ spans' = Append(spans, NoSpans)
       ELSE /\ reqs' = Append(reqs, Response("process_specific_order", 404, 0,
                                             order_id, 0))
            /\ logs' = Append(logs, verify_not_found("process_specific_order")
                                        \o except_HTTPException("process_specific_order"))
            /\ spans' = Append(spans, spans_not_found)
            /\ UNCHANGED <<tasks, queue>>
    /\ UNCHANGED <<products, orders, order_id_seq, conns, TASK_COUNT, TASK_FAILURE, pushed>>
    /\ UNCHANGED <<telvars, metvars>>

----------------------------------------------------------------------------
(* api/worker.py *)

\* the storage calls of one attempt that may raise
Faults == {"connect", "cursor", "select", "insert", "commit"}

\* finally: 'conn' in locals() and conn -- conn is bound once get_db_connection returned
conn_bound(fault) == fault # "connect"

\* cur is bound once conn.cursor() returned
cur_bound(fault) == conn_bound(fault) /\ fault # "cursor"

\* finally: cur.close() on an unbound cur raises before conn.close() is reached
conn_left_open(fault) == conn_bound(fault) /\ ~cur_bound(fault)

worker_product_found_unchecked(order) == TRUE

\* cur.fetchone() after SELECT id, name FROM products WHERE id = %s
worker_product_found(order) == product_exists(order.product_id)

\* the status process_order writes: INSERT ... VALUES (%s, %s, "processed")
process_order_status_pending == "pending"

\* the status process_order inserts: VALUES (%s, %s, %s) with "processed"
process_order_status == "processed"

retry_allowed_off_by_one(task) == task.retries <= max_retries

\* celery Task.retry: request.retries + 1 > max_retries re-raises exc instead of
\* sending the retry message
retry_allowed(task) == task.retries + 1 <= max_retries

TASK_FAILURE_inc_skipped(counter) == counter

\* TASK_FAILURE.labels(task_name=task_name, exception_type=...).inc() in the
\* except block, before self.retry
TASK_FAILURE_inc(counter) == counter + 1

\* process_order.delay(order) by a producer other than the HTTP handlers: the
\* task is registered by name with the broker and takes any order
process_order_delay(product_id, quantity) ==
    /\ Len(reqs) < MaxRequests
    /\ tasks' = Append(tasks, Task("process_order", order_data(product_id, quantity),
                                   ByRequest(Len(reqs) + 1)))
    /\ queue' = queue \cup {uuid}
    /\ reqs' = Append(reqs, Response("process_order.delay", 0, 0, 0, uuid))
    /\ logs' = Append(logs, <<>>)
    /\ spans' = Append(spans, NoSpans)
    /\ UNCHANGED <<products, orders, order_id_seq, conns, TASK_COUNT, TASK_FAILURE, pushed>>
    /\ UNCHANGED <<telvars, metvars>>

raises_push_metrics(fault) == fault # "none"

\* the calls whose exception reaches the except block of process_order: the
\* storage calls; push_metrics catches whatever push_to_gateway raises
raises(fault) == fault \in Faults

\* conn.commit() returned: every storage call of the attempt did
committed(fault) == fault \notin Faults

\* push_metrics(): one more push at the gateway unless push_to_gateway raised
push_metrics(fault) == IF fault = "push_metrics" THEN pushed ELSE pushed + 1

\* one attempt of the process_order task on message id; fault names the call
\* that raises in it: a storage call, or "push_metrics" for push_to_gateway
\* ("none": no call raises)
process_order(id, fault) ==
    /\ id \in queue
    /\ tasks[id].name = "process_order"
    /\ fault \in {"insert", "commit"} => worker_product_found(tasks[id].args)
    /\ LET task == tasks[id]
           order == task.args
       IN  /\ IF committed(fault) /\ worker_product_found(order)
              THEN \* INSERT ... RETURNING id; conn.commit()
                   /\ orders' = Append(orders, OrderRow(nextval, order.product_id,
                                        order.quantity, process_order_status, ByTask(id)))
                   /\ order_id_seq' = nextval
              ELSE UNCHANGED <<orders, order_id_seq>>
           /\ IF raises(fault)
              THEN \* except Exception: metrics, then self.retry(exc=e, countdown=5)
                   /\ TASK_COUNT' = [TASK_COUNT EXCEPT ![<<"process_order", "failed">>] = @ + 1]
                   /\ TASK_FAILURE' = TASK_FAILURE_inc(TASK_FAILURE)
                   /\ IF retry_allowed(task)
                      THEN /\ queue' = queue
                           /\ tasks' = [tasks EXCEPT
                                  ![id].retries = @ + 1,
                                  ![id].countdown = retry_countdown,
                                  ![id].attempts = @ + 1,
                                  ![id].state = IF conn_left_open(fault)
                                                THEN "FAILURE" ELSE "RETRY"]
                      ELSE /\ queue' = queue \ {id}
                           /\ tasks' = [tasks EXCEPT ![id].attempts = @ + 1,
                                                     ![id].state = "FAILURE"]
              ELSE IF ~worker_product_found(order)
              THEN \* return {"status": "failed", "reason": "product_not_found"}
                   /\ TASK_COUNT' = [TASK_COUNT EXCEPT ![<<"process_order", "failed">>] = @ + 1]
                   /\ queue' = queue \ {id}
                   /\ tasks' = [tasks EXCEPT
                          ![id].attempts = @ + 1,
                          ![id].state = "SUCCESS",
                          ![id].result = [status |-> "failed", reason |-> "product_not_found",
                                          order_id |-> 0]]
                   /\ UNCHANGED TASK_FAILURE
              ELSE \* return {"order_id": order_id, "status": "processed"}
                   /\ TASK_COUNT' = [TASK_COUNT EXCEPT ![<<"process_order", "success">>] = @ + 1]
                   /\ queue' = queue \ {id}
                   /\ tasks' = [tasks EXCEPT
                          ![id].attempts = @ + 1,
                          ![id].state = "SUCCESS",
                          ![id].result = [status |-> "processed", reason |-> "",
                                          order_id |-> nextval]]
                   /\ UNCHANGED TASK_FAILURE
    /\ pushed' = push_metrics(fault)
    /\ conns' = conns + (IF conn_left_open(fault) THEN 1 ELSE 0)
    /\ UNCHANGED <<products, reqs, logs, spans>>
    /\ UNCHANGED <<telvars, metvars>>

\* the broker delivers the process_order message id once more after it was
\* run (at-least-once delivery: the message carries no deduplication key and
\* process_order keeps none)
redeliver(id) ==
    /\ tasks[id].name = "process_order"
    /\ id \notin queue
    /\ tasks[id].attempts >= 1
    /\ tasks[id].attempts < MaxDeliveries
    /\ queue' = queue \cup {id}
    /\ UNCHANGED <<products, orders, order_id_seq, tasks, reqs, logs, spans, conns,
                   TASK_COUNT, TASK_FAILURE, pushed>>
    /\ UNCHANGED <<telvars, metvars>>

\* the send_order_confirmation task on message id
send_order_confirmation(id) ==
    /\ id \in queue
    /\ tasks[id].name = "send_order_confirmation"
    /\ TASK_COUNT' = [TASK_COUNT EXCEPT ![<<"send_order_confirmation", "success">>] = @ + 1]
    /\ queue' = queue \ {id}
    /\ tasks' = [tasks EXCEPT
           ![id].attempts = @ + 1,
           ![id].state = "SUCCESS",
           ![id].result = [status |-> "sent", reason |-> "",
                           order_id |-> tasks[id].args.order_id]]
    /\ pushed' = pushed + 1
    /\ UNCHANGED <<products, orders, order_id_seq, reqs, logs, spans, conns, TASK_FAILURE>>
    /\ UNCHANGED <<telvars, metvars>>

\* the send_order_confirmation task on message id when its body raises: the
\* except block records the failed run and re-raises (no retry policy); its
\* failure counter is the series task_name = send_order_confirmation
send_order_confirmation_raises(id) ==
    /\ id \in queue
    /\ tasks[id].name = "send_order_confirmation"
    /\ TASK_COUNT' = [TASK_COUNT EXCEPT ![<<"send_order_confirmation", "failed">>] = @ + 1]
    /\ queue' = queue \ {id}
    /\ tasks' = [tasks EXCEPT ![id].attempts = @ + 1, ![id].state = "FAILURE"]
    /\ pushed' = pushed + 1
    /\ UNCHANGED <<products, orders, order_id_seq, reqs, logs, spans, conns, TASK_FAILURE>>
    /\ UNCHANGED <<telvars, metvars>>

----------------------------------------------------------------------------
(* api/telemetry.py *)

Call(pc, result) ==
    [pc |-> pc, result |-> result,
     after |-> {c \in 1..Len(calls) : calls[c].pc = "done"}]

already_initialized_ignored == FALSE

\* if _telemetry_initialized: return False
already_initialized == telemetry_initialized

\* setup_telemetry, entry: the "only set up once" test (the connectivity probe
\* that follows catches its own exceptions and changes nothing)
setup_telemetry(service_name) ==
    /\ Len(calls) < MaxCallers
    /\ IF already_initialized
       THEN calls' = Append(calls, Call("done", FALSE))
       ELSE calls' = Append(calls, Call("TracerProvider", FALSE))
    /\ UNCHANGED <<telemetry_initialized, providers, tracer_provider, textmap>>
    /\ UNCHANGED <<appvars, metvars>>

\* provider = TracerProvider(resource); provider.add_span_processor(BatchSpanProcessor(OTLPSpanExporter))
setup_TracerProvider(c) ==
    /\ calls[c].pc = "TracerProvider"
    /\ providers' = providers \cup {c}
    /\ calls' = [calls EXCEPT ![c].pc = "set_tracer_provider"]
    /\ UNCHANGED <<telemetry_initialized, tracer_provider, textmap>>
    /\ UNCHANGED <<appvars, metvars>>

\* trace.set_tracer_provider(provider): the global provider can be set once,
\* a later call is refused with a warning
setup_set_tracer_provider(c) ==
    /\ calls[c].pc = "set_tracer_provider"
    /\ tracer_provider' = IF tracer_provider = 0 THEN c ELSE tracer_provider
    /\ calls' = [calls EXCEPT ![c].pc = "set_global_textmap"]
    /\ UNCHANGED <<telemetry_initialized, providers, textmap>>
    /\ UNCHANGED <<appvars, metvars>>

\* propagate.set_global_textmap(TraceContextTextMapPropagator())
setup_set_global_textmap(c) ==
    /\ calls[c].pc = "set_global_textmap"
    /\ textmap' = c
    /\ calls' = [calls EXCEPT ![c].pc = "initialized"]
    /\ UNCHANGED <<telemetry_initialized, providers, tracer_provider>>
    /\ UNCHANGED <<appvars, metvars>>

\* _telemetry_initialized = True
setup_initialized(c) ==
    /\ calls[c].pc = "initialized"
    /\ telemetry_initialized' = TRUE
    /\ calls' = [calls EXCEPT ![c].pc = "test_span"]
    /\ UNCHANGED <<providers, tracer_provider, textmap>>
    /\ UNCHANGED <<appvars, metvars>>

\* the telemetry_test_span, then return True
setup_test_span(c) ==
    /\ calls[c].pc = "test_span"
    /\ calls' = [calls EXCEPT ![c].pc = "done", ![c].result = TRUE]
    /\ UNCHANGED <<telemetry_initialized, providers, tracer_provider, textmap>>
    /\ UNCHANGED <<appvars, metvars>>

----------------------------------------------------------------------------
(* api/metrics.py *)

\* the character classes of the three patterns: \\d, [a-f0-9], [a-f0-9\\-]
digit == {"0", "1", "2", "3", "4", "5", "6", "7", "8", "9"}
hex == digit \cup {"a", "b", "c", "d", "e", "f"}
hex_hyphen == hex \cup {"-"}

\* the characters paths are made of
Alphabet == hex_hyphen \cup {"/", "o", "r", "s", "v", "{", "}", "i", "u", "h"}

\* path segments: a word, a number, a word ending in a digit, and UUIDs and
\* 32-digit hex hashes whose first character is a letter or a digit
seg_orders == <<"o", "r", "d", "e", "r", "s">>
seg_42 == <<"4", "2">>
seg_v1 == <<"v", "1">>
seg_uuid_letter ==
    <<"a", "b", "9", "d", "6", "b", "c", "d", "-", "b", "b", "f",
      "d", "-", "4", "b", "2", "d", "-", "9", "b", "5", "d", "-",
      "a", "b", "8", "d", "f", "b", "b", "d", "4", "b", "e", "d">>
seg_uuid_digit ==
    <<"1", "b", "9", "d", "6", "b", "c", "d", "-", "b", "b", "f",
      "d", "-", "4", "b", "2", "d", "-", "9", "b", "5", "d", "-",
      "a", "b", "8", "d", "f", "b", "b", "d", "4", "b", "e", "d">>
seg_hash_letter ==
    <<"d", "4", "1", "d", "8", "c", "d", "9", "8", "f", "0", "0",
      "b", "2", "0", "4", "e", "9", "8", "0", "0", "9", "9", "8",
      "e", "c", "f", "8", "4", "2", "7", "e">>
seg_hash_digit ==
    <<"0", "9", "8", "f", "6", "b", "c", "d", "4", "6", "2", "1",
      "d", "3", "7", "3", "c", "a", "d", "e", "4", "e", "8", "3",
      "2", "6", "2", "7", "b", "4", "f", "6">>

Segments == {seg_orders, seg_42, seg_v1, seg_uuid_letter, seg_uuid_digit,
             seg_hash_letter, seg_hash_digit}

\* "/" + segment for each segment in turn
RECURSIVE url_path(_)
url_path(segments) ==
    IF segments = <<>> THEN <<>>
    ELSE <<"/">> \o Head(segments) \o url_path(Tail(segments))

Paths == {url_path(segments) :
             segments \in UNION {[1..n -> Segments] : n \in 1..MaxSegments}}

\* the number of characters of class C that s holds from position i on
run(s, i, C) ==
    CHOOSE k \in 0..(Len(s) + 1 - i) :
        /\ \A j \in i..(i + k - 1) : s[j] \in C
        /\ i + k <= Len(s) => s[i + k] \notin C

\* the length of the match of C+ (n = 0, greedy) or of C{n} (n > 0) at
\* position i of s; 0: no match
match(s, i, C, n) ==
    LET k == run(s, i, C)
    IN  IF n = 0 THEN k ELSE IF k >= n THEN n ELSE 0

\* the number of characters the match of /C+ or /C{n} starting at position i
\* takes after its "/"; 0: no match starts there
match_at(s, i, C, n) == IF s[i] = "/" THEN match(s, i + 1, C, n) ELSE 0

\* position j is taken by a match that starts before it (matches cannot
\* overlap: each starts with "/", which is in none of the classes)
consumed(s, j, C, n) == \E i \in 1..(j - 1) : match_at(s, i, C, n) >= j - i

\* what position i of s gives to the result of re.sub
piece(s, i, C, n, repl) ==
    IF match_at(s, i, C, n) > 0 THEN <<"/">> \o repl
    ELSE IF consumed(s, i, C, n) THEN <<>>
    ELSE <<s[i]>>

\* the pieces of positions lo..hi, in order
RECURSIVE pieces(_, _, _, _, _, _)
pieces(s, lo, hi, C, n, repl) ==
    IF lo > hi THEN <<>>
    ELSE IF lo = hi THEN piece(s, lo, C, n, repl)
    ELSE LET mid == (lo + hi) \div 2
         IN  pieces(s, lo, mid, C, n, repl) \o pieces(s, mid + 1, hi, C, n, repl)

\* re.sub(r'/C+', '/' + repl, s) or re.sub(r'/C{n}', '/' + repl, s)
re_sub(s, C, n, repl) == pieces(s, 1, Len(s), C, n, repl)

id_label == <<"{", "i", "d", "}">>
uuid_label == <<"{", "u", "u", "i", "d", "}">>
hash_label == <<"{", "h", "a", "s", "h", "}">>

\* normalize_route: r'/\\d+' -> '/{id}', then r'/[a-f0-9\\-]{36}' -> '/{uuid}',
\* then r'/[a-f0-9]{32}' -> '/{hash}'
normalize_route(p) ==
    re_sub(re_sub(re_sub(p, digit, 0, id_label),
                  hex_hyphen, 36, uuid_label),
           hex, 32, hash_label)

\* route = normalize_route(path)
call_normalize_route ==
    /\ path # <<>>
    /\ route = <<>>
    /\ route' = normalize_route(path)
    /\ UNCHANGED path
    /\ UNCHANGED <<appvars, telvars>>

----------------------------------------------------------------------------
(* Specifications *)

Next ==
    \/ \E name \in Names, price \in Prices : create_product(name, price)
    \/ \E product_id \in ProductIds, quantity \in Quantities, delayed \in BOOLEAN :
           checkout_verify_product(product_id, quantity, delayed)
    \/ \E r \in 1..Len(reqs) : checkout_create_order_record(r)
    \/ \E r \in 1..Len(reqs) : checkout_queue_background_processing(r)
    \/ \E r \in 1..Len(reqs) : checkout_background_tasks(r)
    \/ \E product_id \in ProductIds, quantity \in Quantities :
           create_order(product_id, quantity)
    \/ \E order_id \in 1..(order_id_seq + 1) : process_specific_order(order_id)
    \/ \E product_id \in ProductIds, quantity \in Quantities :
           process_order_delay(product_id, quantity)
    \/ \E id \in queue : process_order(id, "none")
    \/ \E id \in queue : send_order_confirmation(id)

Spec == Init /\ [][Next]_vars

process_order_raises ==
    /\ TASK_FAILURE < MaxFaults
    /\ \E id \in queue, fault \in Faults : process_order(id, fault)

\* the worker with storage calls and metrics pushes that may raise, fed by the
\* handlers that run in one step and by other producers
FaultNext ==
    \/ \E name \in Names, price \in Prices : create_product(name, price)
    \/ \E product_id \in ProductIds, quantity \in Quantities :
           create_order(product_id, quantity)
    \/ \E order_id \in 1..(order_id_seq + 1) : process_specific_order(order_id)
    \/ \E product_id \in ProductIds, quantity \in Quantities :
           process_order_delay(product_id, quantity)
    \/ \E id \in queue : process_order(id, "none")
    \/ \E id \in queue : process_order(id, "push_metrics")
    \/ process_order_raises

FaultSpec == Init /\ [][FaultNext]_vars

\* checkout and its confirmation job, which may fail to be submitted or to run;
\* the process_order jobs stay in the broker, no worker taking them
ConfirmationNext ==
    \/ \E product_id \in ProductIds, quantity \in Quantities, delayed \in BOOLEAN :
           checkout_verify_product(product_id, quantity, delayed)
    \/ \E r \in 1..Len(reqs) : checkout_create_order_record(r)
    \/ \E r \in 1..Len(reqs) : checkout_queue_background_processing(r)
    \/ \E r \in 1..Len(reqs) : checkout_background_tasks(r)
    \/ \E r \in 1..Len(reqs) : checkout_background_tasks_raises(r)
    \/ \E id \in queue : send_order_confirmation(id)
    \/ \E id \in queue : send_order_confirmation_raises(id)

ConfirmationSpec == Init /\ [][ConfirmationNext]_vars

\* the worker fed by a producer, under a broker that may deliver a message
\* more than once
RedeliveryNext ==
    \/ \E product_id \in ProductIds, quantity \in Quantities :
           process_order_delay(product_id, quantity)
    \/ \E id \in queue : process_order(id, "none")
    \/ \E id \in 1..Len(tasks) : redeliver(id)

RedeliverySpec == Init /\ [][RedeliveryNext]_vars

\* checkout with storage and broker calls that may raise
CheckoutFaultNext ==
    \/ \E product_id \in ProductIds, quantity \in Quantities, delayed \in BOOLEAN :
           checkout_verify_product(product_id, quantity, delayed)
    \/ \E r \in 1..Len(reqs) : checkout_create_order_record(r)
    \/ \E r \in 1..Len(reqs) : checkout_create_order_record_raises(r)
    \/ \E r \in 1..Len(reqs) : checkout_queue_background_processing(r)
    \/ \E r \in 1..Len(reqs) : checkout_queue_background_processing_raises(r)
    \/ \E r \in 1..Len(reqs) : checkout_background_tasks(r)

CheckoutFaultSpec == Init /\ [][CheckoutFaultNext]_vars

\* normalize_route called on a path
RouteInit ==
    /\ InitStore
    /\ path \in Paths
    /\ route = <<>>

RouteNext == call_normalize_route

RouteSpec == RouteInit /\ [][RouteNext]_vars

TelemetryNext ==
    \/ setup_telemetry("")
    \/ \E c \in 1..Len(calls) : setup_TracerProvider(c)
    \/ \E c \in 1..Len(calls) : setup_set_tracer_provider(c)
    \/ \E c \in 1..Len(calls) : setup_set_global_textmap(c)
    \/ \E c \in 1..Len(calls) : setup_initialized(c)
    \/ \E c \in 1..Len(calls) : setup_test_span(c)

TelemetrySpec == Init /\ [][TelemetryNext]_vars

----------------------------------------------------------------------------
(* Properties *)

\* the rows a request inserted, the tasks it submitted
RowsBy(by) == {i \in 1..Len(orders) : orders[i].by = by}
TasksBy(by) == {i \in 1..Len(tasks) : tasks[i].by = by}

\* this step is the arrival of a request of kind op
Arrives(op) == Len(reqs') = Len(reqs) + 1 /\ reqs'[Len(reqs')].op = op

\* this step is an attempt of task id
Attempt(id) == id \in 1..Len(tasks) /\ tasks'[id].attempts = tasks[id].attempts + 1

\* C1: a checkout whose product_id matches no Product is answered 404 by the step
\* that verifies it, that step leaves the orders table, the submitted tasks and the
\* queue as they were, and the request is over: no row and no process_order or
\* confirmation task is ever owed to it.
C1_CheckoutMissingProduct ==
    [][ /\ (Arrives("checkout") /\ ~product_exists(reqs'[Len(reqs')].product_id))
            => /\ reqs'[Len(reqs')].status_code = 404
               /\ reqs'[Len(reqs')].pc = "done"
               /\ orders' = orders
               /\ tasks' = tasks
               /\ queue' = queue
        /\ \A r \in 1..Len(reqs) :
              (reqs[r].op = "checkout" /\ reqs[r].status_code = 404)
                  => /\ reqs'[r] = reqs[r]
                     /\ \A i \in 1..Len(orders') : orders'[i].by # ByRequest(r)
                     /\ \A i \in 1..Len(tasks') : tasks'[i].by # ByRequest(r)
      ]_vars

\* C1 witness: a checkout was refused with 404 while the orders table holds rows
C1_Witness ==
    \E r \in 1..Len(reqs) :
        /\ reqs[r].op = "checkout"
        /\ reqs[r].status_code = 404
        /\ ~product_exists(reqs[r].product_id)
        /\ Len(orders) > 0

\* C2: a checkout on an existing product never has more than one row; once it has
\* answered it has exactly one row, of status pending, with the id it returned, and
\* the task id it returned is non-empty and names a submitted process_order task --
\* with the delay branch taken or not.
C2_CheckoutInsertsOnePending ==
    \A r \in 1..Len(reqs) :
        reqs[r].op = "checkout" =>
            /\ Cardinality(RowsBy(ByRequest(r))) <= 1
            /\ reqs[r].pc \in {"create_order_record", "queue_background_processing",
                               "background_tasks", "done"}
            /\ (reqs[r].pc = "done" => reqs[r].status_code \in {200, 404})
            /\ (reqs[r].pc \in {"background_tasks", "done"} /\ reqs[r].status_code # 404) =>
                  /\ reqs[r].status_code = 200
                  /\ Cardinality(RowsBy(ByRequest(r))) = 1
                  /\ \A i \in RowsBy(ByRequest(r)) :
                        /\ orders[i].status = "pending"
                        /\ orders[i].id = reqs[r].order_id
                  /\ reqs[r].task_id # 0
                  /\ reqs[r].task_id \in TasksBy(ByRequest(r))
                  /\ tasks[reqs[r].task_id].name = "process_order"

\* C2 witness: two checkouts have answered, one that took the delay branch and one
\* that did not
C2_Witness ==
    \E r1, r2 \in 1..Len(reqs) :
        /\ reqs[r1].op = "checkout" /\ reqs[r1].pc = "background_tasks"
        /\ reqs[r1].delayed /\ reqs[r1].status_code = 200
        /\ reqs[r2].op = "checkout" /\ reqs[r2].pc = "background_tasks"
        /\ ~reqs[r2].delayed /\ reqs[r2].status_code = 200

\* C3: an attempt of a process_order job whose product_id matches no Product ends
\* with the result failed / product_not_found, sends no retry (the job leaves the
\* queue with retries 0 and this is its only attempt) and inserts no row.
C3_MissingProductTerminal ==
    [][ \A id \in 1..Len(tasks) :
          (/\ Attempt(id)
           /\ tasks[id].name = "process_order"
           /\ ~product_exists(tasks[id].args.product_id))
              => /\ tasks'[id].result.status = "failed"
                 /\ tasks'[id].result.reason = "product_not_found"
                 /\ tasks'[id].retries = 0
                 /\ tasks'[id].attempts = 1
                 /\ id \notin queue'
                 /\ orders' = orders
                 /\ TASK_FAILURE' = TASK_FAILURE
      ]_vars

\* C3 witness: a job naming a missing product was executed
C3_Witness ==
    \E id \in 1..Len(tasks) :
        /\ tasks[id].name = "process_order"
        /\ ~product_exists(tasks[id].args.product_id)
        /\ tasks[id].attempts = 1
        /\ tasks[id].result.reason = "product_not_found"

\* C4: an attempt of a process_order job in which a storage call raises sends a
\* retry with countdown 5 while fewer than 3 retries were made; at 3 retries it
\* sends none and the job ends in FAILURE. No job ever has more than 3 retries or
\* 4 attempts, and a job that has stopped is never scheduled again.
C4_RetriesBounded ==
    [][ \A id \in 1..Len(tasks) :
          /\ (/\ Attempt(id)
              /\ tasks[id].name = "process_order"
              /\ TASK_FAILURE' = TASK_FAILURE + 1)
                 => IF tasks[id].retries < 3
                    THEN /\ id \in queue'
                         /\ tasks'[id].retries = tasks[id].retries + 1
                         /\ tasks'[id].countdown = 5
                    ELSE /\ id \notin queue'
                         /\ tasks'[id].retries = tasks[id].retries
                         /\ tasks'[id].state = "FAILURE"
          /\ tasks'[id].retries <= 3
          /\ tasks'[id].attempts <= 4
          /\ (tasks[id].attempts > 0 /\ id \notin queue)
                 => (id \notin queue' /\ tasks'[id] = tasks[id])
      ]_vars

\* C4 witness: a job has failed four times, was retried three times and stopped
C4_Witness ==
    \E id \in 1..Len(tasks) :
        /\ tasks[id].name = "process_order"
        /\ tasks[id].retries = 3
        /\ tasks[id].attempts = 4
        /\ tasks[id].state = "FAILURE"
        /\ id \notin queue
        /\ TASK_FAILURE = 4

\* C5: between attempts no storage connection opened by the worker is open
C5_ConnectionsClosed == conns = 0

\* C6: when setup_telemetry is called twice, the second call after the first has
\* returned, the first returns True and the second False, and the telemetry state
\* is the one the first call left: one provider built, installed by the first.
C6_SetupTwice ==
    \A a, b \in 1..Len(calls) :
        (Len(calls) = 2 /\ a \in calls[b].after /\ calls[b].pc = "done")
            => /\ calls[a].result = TRUE
               /\ calls[b].result = FALSE
               /\ providers = {a}
               /\ tracer_provider = a
               /\ textmap = a
               /\ telemetry_initialized

\* C6 witness: two calls, one after the other, have both returned
C6_Witness ==
    /\ Len(calls) = 2
    /\ 1 \in calls[2].after
    /\ calls[2].pc = "done"

CheckoutRequests == {r \in 1..Len(reqs) : reqs[r].op = "checkout"}

\* C7: however checkout requests interleave, those that have inserted have as many
\* rows, with pairwise distinct ids, those that have submitted have pairwise
\* distinct task ids, and the Product row a request read is still the stored one.
C7_ConcurrentCheckouts ==
    /\ \A r1, r2 \in CheckoutRequests :
          r1 # r2 =>
            /\ (reqs[r1].order_id # 0 /\ reqs[r2].order_id # 0)
                  => reqs[r1].order_id # reqs[r2].order_id
            /\ (reqs[r1].task_id # 0 /\ reqs[r2].task_id # 0)
                  => reqs[r1].task_id # reqs[r2].task_id
    /\ \A i, j \in 1..Len(orders) : i # j => orders[i].id # orders[j].id
    /\ Cardinality({orders[i].id : i \in UNION {RowsBy(ByRequest(r)) : r \in CheckoutRequests}})
           = Cardinality({r \in CheckoutRequests : reqs[r].order_id # 0})
    /\ \A r \in CheckoutRequests :
          reqs[r].pc \notin {"done"} =>
            /\ product_exists(reqs[r].product_id)
            /\ products[reqs[r].product_id] = reqs[r].product
    /\ products[1] = [name |-> "lp", price |-> 10]

\* C7 witness: two checkouts of one product are in flight together and both have
\* inserted their row and submitted their job
C7_Witness ==
    \E r1, r2 \in CheckoutRequests :
        /\ r1 # r2
        /\ reqs[r1].product_id = reqs[r2].product_id
        /\ reqs[r1].pc = "background_tasks"
        /\ reqs[r2].pc = "background_tasks"

\* C8: every Order row's product_id is the id of a Product row
C8_OrdersReferenceProducts ==
    \A i \in 1..Len(orders) : product_exists(orders[i].product_id)

\* C8 witness: rows inserted by checkout and by the worker are there, and the
\* worker has refused a job naming a missing product
C8_Witness ==
    /\ \E i \in 1..Len(orders), r \in CheckoutRequests : orders[i].by = ByRequest(r)
    /\ \E i \in 1..Len(orders), id \in 1..Len(tasks) : orders[i].by = ByTask(id)
    /\ \E id \in 1..Len(tasks) : tasks[id].result.reason = "product_not_found"

\* C9: create_order runs in one step that submits no task and leaves the queue as
\* it was; on a missing product it answers 404 and inserts nothing, otherwise it
\* answers 200 and appends exactly one row, of status pending, to the orders table.
\* No task is ever submitted by a create_order request.
C9_CreateOrderNoTask ==
    [][ /\ Arrives("create_order") =>
              LET req == reqs'[Len(reqs')]
              IN  /\ req.pc = "done"
                  /\ tasks' = tasks
                  /\ queue' = queue
                  /\ \/ /\ req.status_code = 404
                        /\ ~product_exists(req.product_id)
                        /\ orders' = orders
                     \/ /\ req.status_code = 200
                        /\ Len(orders') = Len(orders) + 1
                        /\ SubSeq(orders', 1, Len(orders)) = orders
                        /\ orders'[Len(orders')].status = "pending"
                        /\ orders'[Len(orders')].id = req.order_id
                        /\ orders'[Len(orders')].by = ByRequest(Len(reqs'))
                        /\ product_exists(orders'[Len(orders')].product_id)
        /\ \A r \in 1..Len(reqs') :
              reqs'[r].op = "create_order" =>
                  \A i \in 1..Len(tasks') : tasks'[i].by # ByRequest(r)
      ]_vars

\* C9 witness: create_order has inserted a row while a task waits in the queue
C9_Witness ==
    \E r \in 1..Len(reqs) :
        /\ reqs[r].op = "create_order"
        /\ reqs[r].status_code = 200
        /\ RowsBy(ByRequest(r)) # {}
        /\ queue # {}

\* C10: process_specific_order runs in one step that leaves the orders table as it
\* was; when a row has the id asked for it answers 200 and submits exactly one
\* process_order task carrying that row's product_id and quantity, otherwise it
\* answers 404 and the submitted tasks and the queue are as they were.
C10_ProcessOrderSubmits ==
    [][ Arrives("process_specific_order") =>
          LET req == reqs'[Len(reqs')]
              rows == {i \in 1..Len(orders) : orders[i].id = req.order_id}
              id == Len(tasks) + 1
          IN  /\ req.pc = "done"
              /\ orders' = orders
              /\ IF rows # {}
                 THEN /\ req.status_code = 200
                      /\ req.task_id = id
                      /\ Len(tasks') = id
                      /\ SubSeq(tasks', 1, Len(tasks)) = tasks
                      /\ tasks'[id].name = "process_order"
                      /\ \A i \in rows :
                            /\ tasks'[id].args.product_id = orders[i].product_id
                            /\ tasks'[id].args.quantity = orders[i].quantity
                      /\ id \notin queue
                      /\ queue' = queue \cup {id}
                 ELSE /\ req.status_code = 404
                      /\ tasks' = tasks
                      /\ queue' = queue
      ]_vars

\* C10 witness: process_specific_order has submitted the job of a stored order
C10_Witness ==
    \E r \in 1..Len(reqs) :
        /\ reqs[r].op = "process_specific_order"
        /\ reqs[r].status_code = 200
        /\ reqs[r].task_id \in queue
        /\ \E i \in 1..Len(orders) : orders[i].id = reqs[r].order_id

\* the confirmation jobs a request submitted
ConfirmationsBy(r) ==
    {id \in TasksBy(ByRequest(r)) : tasks[id].name = "send_order_confirmation"}

\* a step in which the confirmation job of checkout r fails: its submission in
\* the background task, or its execution by the worker
ConfirmationFails(r) ==
    \/ /\ reqs[r].pc = "background_tasks"
       /\ reqs'[r].pc = "done"
       /\ Len(tasks') = Len(tasks)
    \/ \E id \in ConfirmationsBy(r) :
           tasks[id].state # "FAILURE" /\ tasks'[id].state = "FAILURE"

\* C11: in checkout the confirmation job is submitted only once the response
\* (200 with order_id and task_id) has been produced, and a step in which the
\* confirmation job fails, at submission or at execution, leaves the response,
\* the orders table and the process_order job of that checkout as they were.
C11_ConfirmationAfterResponse ==
    [][\A r \in CheckoutRequests :
          /\ (\E id \in (1..Len(tasks')) \ (1..Len(tasks)) :
                  /\ tasks'[id].name = "send_order_confirmation"
                  /\ tasks'[id].by = ByRequest(r))
             => /\ reqs[r].status_code = 200
                /\ reqs[r].task_id \in 1..Len(tasks)
                /\ order_rows(reqs[r].order_id) # {}
          /\ ConfirmationFails(r)
             => /\ reqs'[r].status_code = 200
                /\ reqs'[r].order_id = reqs[r].order_id
                /\ reqs'[r].task_id = reqs[r].task_id
                /\ reqs[r].task_id \in 1..Len(tasks)
                /\ orders' = orders
                /\ tasks'[reqs[r].task_id] = tasks[reqs[r].task_id]
                /\ (reqs[r].task_id \in queue') = (reqs[r].task_id \in queue)
      ]_vars

\* one checkout answered 200 whose confirmation job could not be submitted and
\* another whose confirmation job failed in the worker
C11_Witness ==
    \E r1, r2 \in CheckoutRequests :
        /\ reqs[r1].pc = "done" /\ reqs[r1].status_code = 200
        /\ ConfirmationsBy(r1) = {}
        /\ reqs[r2].pc = "done" /\ reqs[r2].status_code = 200
        /\ \E id \in ConfirmationsBy(r2) : tasks[id].state = "FAILURE"

\* the requests whose verification step found nothing
NotFoundRequests == {r \in 1..Len(reqs) : spans[r].verify = "ERROR"}

\* C12: a request of checkout, create_order or process_specific_order rejected
\* by its verification step is answered with the 404 status the step raised
\* and has written exactly one log record, the step's own "not found" record:
\* the handler's except clauses add no record and change no status.
C12_NotFoundLoggedOnce ==
    \A r \in NotFoundRequests :
        /\ reqs[r].op \in {"checkout", "create_order", "process_specific_order"}
        /\ reqs[r].pc = "done"
        /\ reqs[r].status_code = 404
        /\ Len(logs[r]) = 1
        /\ logs[r][1].message = not_found_message(reqs[r].op)

\* a checkout and a process_specific_order both rejected with 404
C12_Witness ==
    \E r1, r2 \in NotFoundRequests :
        /\ reqs[r1].op = "checkout" /\ reqs[r1].status_code = 404
        /\ reqs[r2].op = "process_specific_order" /\ reqs[r2].status_code = 404

\* the attempts of the process_order jobs 1..n that ended in the except block
RECURSIVE FailedAttempts(_)
FailedAttempts(n) ==
    IF n = 0 THEN 0
    ELSE FailedAttempts(n - 1)
         + (IF tasks[n].name = "process_order"
            THEN tasks[n].attempts - (IF tasks[n].state = "SUCCESS" THEN 1 ELSE 0)
            ELSE 0)

\* C13: every process_order attempt in which a storage call raises adds
\* exactly one to the task failure counter, the attempt that exhausts the
\* retries included: the counter equals the number of failed attempts executed,
\* so a job that failed on each of its attempts has added as many as it ran.
C13_FailureMetricPerAttempt ==
    /\ TASK_FAILURE = FailedAttempts(Len(tasks))
    /\ \A id \in 1..Len(tasks) :
           (tasks[id].name = "process_order" /\ tasks[id].state # "SUCCESS")
           => TASK_FAILURE >= tasks[id].attempts

\* a job stopped after failing on all of its max_retries + 1 attempts, the
\* only attempts that failed
C13_Witness ==
    \E id \in 1..Len(tasks) :
        /\ tasks[id].name = "process_order"
        /\ id \notin queue
        /\ tasks[id].state = "FAILURE"
        /\ tasks[id].attempts = max_retries + 1
        /\ TASK_FAILURE = tasks[id].attempts

\* the 'processed' rows the executions of job id inserted
ProcessedRowsBy(id) == {i \in RowsBy(ByTask(id)) : orders[i].status = "processed"}

\* C14: process_order is not idempotent under redelivery: a job naming an
\* existing product that was delivered and run k times has inserted k rows
\* with status 'processed', each under its own id and with the job's
\* product_id and quantity (a job naming a missing product inserts none).
C14_RedeliveryInsertsAgain ==
    \A id \in 1..Len(tasks) :
        tasks[id].name = "process_order"
        => IF product_exists(tasks[id].args.product_id)
           THEN /\ Cardinality(ProcessedRowsBy(id)) = tasks[id].attempts
                /\ Cardinality({orders[i].id : i \in ProcessedRowsBy(id)}) = tasks[id].attempts
                /\ \A i \in ProcessedRowsBy(id) :
                       /\ orders[i].product_id = tasks[id].args.product_id
                       /\ orders[i].quantity = tasks[id].args.quantity
           ELSE RowsBy(ByTask(id)) = {}

\* one job delivered and run twice, two 'processed' rows for it
C14_Witness ==
    \E id \in 1..Len(tasks) :
        /\ tasks[id].name = "process_order"
        /\ tasks[id].attempts = 2
        /\ id \notin queue
        /\ Cardinality(ProcessedRowsBy(id)) = 2

\* C15: an existing Order row is changed only by the worker completing the
\* job submitted for it, which moves the row's status on: once the job
\* submitted by a checkout has completed with result 'processed', the row
\* that checkout inserted is no longer 'pending'.
C15_WorkerTransitionsStatus ==
    \A r \in CheckoutRequests :
        (/\ reqs[r].task_id \in 1..Len(tasks)
         /\ tasks[reqs[r].task_id].state = "SUCCESS"
         /\ tasks[reqs[r].task_id].result.status = "processed")
        => \A i \in RowsBy(ByRequest(r)) : orders[i].status # "pending"

\* C16: a request rejected because the entity it names is missing is logged
\* at level INFO, never ERROR, and carries the error status on its
\* verification span only: the handler's root span is not set to ERROR.
C16_NotFoundIsInfo ==
    \A r \in NotFoundRequests :
        /\ \A k \in 1..Len(logs[r]) : logs[r][k].level = "INFO"
        /\ spans[r].verify = "ERROR"
        /\ spans[r].root # "ERROR"

\* the segments of a path: what stands between its "/"
RECURSIVE split(_, _)
split(s, i) ==
    IF i > Len(s) THEN <<>>
    ELSE LET k == run(s, i + 1, Alphabet \ {"/"})
         IN  <<SubSeq(s, i + 1, i + k)>> \o split(s, i + 1 + k)

is_numeric(segment) ==
    segment # <<>> /\ \A i \in 1..Len(segment) : segment[i] \in digit

\* 8-4-4-4-12 hex digits, hyphens between the groups
is_uuid(segment) ==
    /\ Len(segment) = 36
    /\ \A i \in 1..36 : IF i \in {9, 14, 19, 24} THEN segment[i] = "-"
                                                 ELSE segment[i] \in hex

is_hash(segment) ==
    Len(segment) = 32 /\ \A i \in 1..32 : segment[i] \in hex

\* the segment-wise transformation the specification describes: numbers
\* first, then UUIDs, then hashes
reference_segment(segment) ==
    IF is_numeric(segment) THEN id_label
    ELSE IF is_uuid(segment) THEN uuid_label
    ELSE IF is_hash(segment) THEN hash_label
    ELSE segment

RECURSIVE reference(_)
reference(segments) ==
    IF segments = <<>> THEN <<>>
    ELSE <<"/">> \o reference_segment(Head(segments)) \o reference(Tail(segments))

\* C17: normalize_route returns the reference transformation of its path:
\* every numeric segment becomes {id}, every 36-character hyphenated hex
\* segment {uuid} and every 32-character hex segment {hash}, also when the
\* UUID or the hash begins with a digit; /orders/42 becomes /orders/{id}.
C17_NormalizeRoute ==
    route # <<>> => route = reference(split(path, 1))

\* C18: over the attempts of one delivery of a process_order job at most one
\* Order row is committed: while a retry of the job is waiting the job has
\* committed no row, and once it has committed one the job has ended in
\* success with that row's id and no retry scheduled, whether or not the
\* metrics push after the commit reached the gateway.
C18_OneRowPerDelivery ==
    \A id \in 1..Len(tasks) :
        tasks[id].name = "process_order"
        => /\ Cardinality(RowsBy(ByTask(id))) <= 1
           /\ id \in queue => RowsBy(ByTask(id)) = {}
           /\ \A i \in RowsBy(ByTask(id)) :
                  /\ id \notin queue
                  /\ tasks[id].state = "SUCCESS"
                  /\ tasks[id].result.status = "processed"
                  /\ tasks[id].result.order_id = orders[i].id

\* the only job failed once, was retried and committed its row in an attempt
\* whose metrics push did not reach the gateway
C18_Witness ==
    /\ Len(tasks) = 1
    /\ tasks[1].name = "process_order"
    /\ tasks[1].attempts = 2
    /\ tasks[1].retries = 1
    /\ tasks[1].state = "SUCCESS"
    /\ Cardinality(RowsBy(ByTask(1))) = 1
    /\ pushed = 1

\* C19: checkout is all-or-nothing: a checkout that has ended without a
\* success response (404 or 500) has left no Order row and no job, and one
\* answered 200 has left its one 'pending' row and its process_order job.
C19_CheckoutAllOrNothing ==
    \A r \in CheckoutRequests :
        reqs[r].pc = "done"
        => IF reqs[r].status_code = 200
           THEN /\ \E i \in RowsBy(ByRequest(r)) : orders[i].status = "pending"
                /\ \E id \in TasksBy(ByRequest(r)) : tasks[id].name = "process_order"
           ELSE /\ RowsBy(ByRequest(r)) = {}
                /\ TasksBy(ByRequest(r)) = {}

\* the calls that found the flag unset and went on to initialize
PassedCheck == {c \in 1..Len(calls) : calls[c].pc # "done" \/ calls[c].result}

\* C20: however the calls of setup_telemetry interleave, at most one of them
\* returns True, at most one passes the test of the initialized flag, and at
\* most one trace provider is built and handed to set_tracer_provider.
C20_SetupOnceUnderInterleaving ==
    /\ Cardinality({c \in 1..Len(calls) : calls[c].pc = "done" /\ calls[c].result}) <= 1
    /\ Cardinality(PassedCheck) <= 1
    /\ Cardinality(providers) <= 1

====
